---- MODULE Spec2Model ----
(***************************************************************************)
(* A model of `tf` (src/src/main.rs): a command-line front-end that        *)
(* rewrites .envrc (set-env) and forwards plan/apply/destroy/init to the   *)
(* terraform executable.                                                   *)
(*                                                                         *)
(* One step of the model is one whole process invocation: main() parses a  *)
(* command, runs its handler to the end and exits.  The working            *)
(* directory (.envrc and the other entries) is what persists from one      *)
(* invocation to the next.  Bytes are the integers 0..255, byte strings    *)
(* are sequences of them.                                                  *)
(***************************************************************************)
EXTENDS Integers, Sequences, FiniteSets

VARIABLES
    envrc,      \* the bytes of the file .envrc
    tree,       \* the other entries of the working directory, a set of paths
    runs,       \* how many invocations have ended
    inv,        \* the last invocation: command, options, environment, faults
    res,        \* what it did: exit status, failing step, effects, argv, stdout
    before,     \* the working directory as the last invocation found it
    hist,       \* the invocation before the last: whether it was a successful
                \*   set-env, and its new_env
    li_input,   \* LineIterator on its own: the reader's bytes,
    li_delim,   \*   the delimiter,
    li_pos,     \*   the reader's position (the next byte to read, from 1),
    li_chunks,  \*   the chunks yielded so far,
    li_nones    \*   and how many times next() has returned None

vars == <<envrc, tree, runs, inv, res, before, hist,
          li_input, li_delim, li_pos, li_chunks, li_nones>>

----------------------------------------------------------------------------
(* Bounds of the model *)

\* fragments an initial .envrc is made of
MaxFrags == 3
\* invocations in one behaviour
MaxRuns == 2
\* bytes of a LineIterator input
MaxLen == 4

----------------------------------------------------------------------------
(* Byte strings of the program *)

\* b'\n'
NL == <<10>>
\* "export ENV"
MARKER == <<101, 120, 112, 111, 114, 116, 32, 69, 78, 86>>
\* "envs"
ENVS == <<101, 110, 118, 115>>
\* "main.tfvars"
MAIN_TFVARS == <<109, 97, 105, 110, 46, 116, 102, 118, 97, 114, 115>>
\* "terraform_state.tfvars"
STATE_TFVARS == <<116, 101, 114, 114, 97, 102, 111, 114, 109, 95, 115, 116,
                  97, 116, 101, 46, 116, 102, 118, 97, 114, 115>>
\* "/", the path separator
SEP == <<47>>
\* the path of the Terraform cache directory
TERRAFORM_DIR == <<".terraform">>
REMINDER ==
    "Run 'direnv allow' to load new env changes. Terraform will need to be init'd again."

----------------------------------------------------------------------------
(* Text: UTF-8 validation, substring search, formatting *)

\* The width of the UTF-8 scalar value that starts at b[i], 0 when none does
\* (core::str::from_utf8's table of well-formed byte sequences).
Utf8CharLen(b, i) ==
    LET c == b[i]
        n == Len(b)
        In(j, lo, hi) == j <= n /\ b[j] >= lo /\ b[j] <= hi
        Cont(j) == In(j, 128, 191)
    IN  IF c < 128 THEN 1
        ELSE IF c >= 194 /\ c <= 223 THEN (IF Cont(i+1) THEN 2 ELSE 0)
        ELSE IF c = 224 THEN (IF In(i+1, 160, 191) /\ Cont(i+2) THEN 3 ELSE 0)
        ELSE IF (c >= 225 /\ c <= 236) \/ c = 238 \/ c = 239
             THEN (IF Cont(i+1) /\ Cont(i+2) THEN 3 ELSE 0)
        ELSE IF c = 237 THEN (IF In(i+1, 128, 159) /\ Cont(i+2) THEN 3 ELSE 0)
        ELSE IF c = 240
             THEN (IF In(i+1, 144, 191) /\ Cont(i+2) /\ Cont(i+3) THEN 4 ELSE 0)
        ELSE IF c >= 241 /\ c <= 243
             THEN (IF Cont(i+1) /\ Cont(i+2) /\ Cont(i+3) THEN 4 ELSE 0)
        ELSE IF c = 244
             THEN (IF In(i+1, 128, 143) /\ Cont(i+2) /\ Cont(i+3) THEN 4 ELSE 0)
        ELSE 0

RECURSIVE Utf8ValidFrom(_, _)
Utf8ValidFrom(b, i) ==
    IF i > Len(b) THEN TRUE
    ELSE LET w == Utf8CharLen(b, i)
         IN  IF w = 0 THEN FALSE ELSE Utf8ValidFrom(b, i + w)

\* whether the bytes are well-formed UTF-8
Utf8Valid(b) == Utf8ValidFrom(b, 1)

\* a mutant of from_utf8: a lossy conversion that accepts every byte string
from_utf8_unchecked(b) == [ok |-> TRUE, str |-> b]

\* std::str::from_utf8: the same bytes as a str, or an error
from_utf8(b) == [ok |-> Utf8Valid(b), str |-> b]

\* str::contains: pat occurs in s as a contiguous substring
Contains(s, pat) ==
    \E i \in 1..(Len(s) - Len(pat) + 1) : SubSeq(s, i, i + Len(pat) - 1) = pat

\* a mutant of FormatExport: the line without its newline
FormatExportNoNewline(new_env) == MARKER \o <<61>> \o new_env

\* format!("export ENV={}\n", new_env)
FormatExport(new_env) == MARKER \o <<61>> \o new_env \o NL

----------------------------------------------------------------------------
(* LineIterator *)

RECURSIVE read_until_keep(_, _, _)
read_until_keep(delim, data, pos) ==
    IF pos > Len(data) THEN <<>>
    ELSE IF data[pos] = delim THEN <<delim>>
    ELSE <<data[pos]>> \o read_until_keep(delim, data, pos + 1)

\* a mutant of read_until: the delimiter is consumed but dropped from the
\* buffer, as BufRead::lines does
RECURSIVE read_until_strip(_, _, _)
read_until_strip(delim, data, pos) ==
    IF pos > Len(data) THEN [n |-> 0, buf |-> <<>>]
    ELSE IF data[pos] = delim THEN [n |-> 1, buf |-> <<>>]
    ELSE LET r == read_until_strip(delim, data, pos + 1)
         IN  [n |-> r.n + 1, buf |-> <<data[pos]>> \o r.buf]

\* BufRead::read_until(delim, &mut buf) on a reader at pos: the bytes up to
\* and including the first delim, or up to the end of the input; n is the
\* number of bytes read.
read_until(delim, data, pos) ==
    LET buf == read_until_keep(delim, data, pos)
    IN  [n |-> Len(buf), buf |-> buf]

\* a mutant of LineIterator_next: a read of a single byte is taken for the
\* end of the input
LineIterator_next_short(delim, data, pos, io_err) ==
    IF io_err THEN [kind |-> "err", buf |-> <<>>, pos |-> pos]
    ELSE LET r == read_until(delim, data, pos)
         IN  IF r.n <= 1 THEN [kind |-> "none", buf |-> <<>>, pos |-> pos]
             ELSE [kind |-> "ok", buf |-> r.buf, pos |-> pos + r.n]

\* LineIterator::next on a reader at pos; io_err says that this read fails.
\* None, Some(Ok(buf)) with the reader's new position, or Some(Err).
LineIterator_next(delim, data, pos, io_err) ==
    IF io_err THEN [kind |-> "err", buf |-> <<>>, pos |-> pos]
    ELSE LET r == read_until(delim, data, pos)
         IN  IF r.n = 0 THEN [kind |-> "none", buf |-> <<>>, pos |-> pos]
             ELSE [kind |-> "ok", buf |-> r.buf, pos |-> pos + r.n]

----------------------------------------------------------------------------
(* Paths and the process environment *)

\* a mutant of PathJoin: the separator is forgotten
PathJoinNoSep(base, p) ==
    IF Len(p) > 0 /\ p[1] = SEP[1] THEN p ELSE base \o p

\* Path::join (PathBuf::push) on Unix: an absolute p replaces base; otherwise
\* p is appended, after a separator unless base is empty or ends with one.
PathJoin(base, p) ==
    IF Len(p) > 0 /\ p[1] = SEP[1] THEN p
    ELSE IF Len(base) > 0 /\ base[Len(base)] # SEP[1] THEN base \o SEP \o p
    ELSE base \o p

\* Path::to_string_lossy: the path's bytes; each byte that starts no
\* well-formed sequence becomes U+FFFD (EF BF BD).
RECURSIVE to_string_lossy_from(_, _)
to_string_lossy_from(b, i) ==
    IF i > Len(b) THEN <<>>
    ELSE LET w == Utf8CharLen(b, i)
         IN  IF w = 0 THEN <<239, 191, 189>> \o to_string_lossy_from(b, i + 1)
             ELSE SubSeq(b, i, i + w - 1) \o to_string_lossy_from(b, i + w)

to_string_lossy(b) == to_string_lossy_from(b, 1)

\* An environment variable is absent, or set to some bytes.
Absent == [set |-> FALSE, val |-> <<>>]
SetTo(bytes) == [set |-> TRUE, val |-> bytes]

\* std::env::var: Ok(value) when the variable is set to valid Unicode,
\* Err(NotPresent) or Err(NotUnicode) otherwise.
env_var(v) ==
    IF ~v.set THEN [ok |-> FALSE, val |-> <<>>]
    ELSE IF ~Utf8Valid(v.val) THEN [ok |-> FALSE, val |-> <<>>]
    ELSE [ok |-> TRUE, val |-> v.val]

\* a mutant of check_env: only ENV is looked at
check_env_only_ENV(env) == env_var(env.ENV).ok

\* check_env: both variables must be readable
check_env(env) == env_var(env.ENV).ok /\ env_var(env.AWS_PROFILE).ok

----------------------------------------------------------------------------
(* What an invocation leaves behind *)

\* exit: the process's exit status (0: main returned Ok, 1: main returned
\* Err, 101: a panic); failed: the step that failed; effects: the steps that
\* succeeded, in order; argv: the command lines handed to spawn; stdout: the
\* lines the tool itself printed; envrc, tree: the working directory after.
Outcome(exit, failed, effects, argv, stdout, file, dir) ==
    [exit |-> exit, failed |-> failed, effects |-> effects, argv |-> argv,
     stdout |-> stdout, envrc |-> file, tree |-> dir]

----------------------------------------------------------------------------
(* set-env *)

\* a mutant of rewrite_line: the new line is put before the matching line
\* instead of in its place
rewrite_line_insert(line, new_env) ==
    IF Contains(line, MARKER) THEN FormatExport(new_env) \o line ELSE line

\* the body of set_env's loop: what one line adds to new_contents
rewrite_line(line, new_env) ==
    IF Contains(line, MARKER) THEN FormatExport(new_env) ELSE line

\* set_env's loop over LineIterator::new(b'\n', reader), from the reader's
\* position pos, at the call-th call of next(): new_contents when every line
\* was read and was valid UTF-8; "panic" when line.unwrap() met a read
\* error; "utf8" when from_utf8 failed.
RECURSIVE set_env_lines(_, _, _, _, _, _)
set_env_lines(data, pos, call, new_contents, new_env, fault) ==
    LET io_err == (fault = "read1" /\ call = 1) \/ (fault = "read2" /\ call = 2)
        it == LineIterator_next(NL[1], data, pos, io_err)
    IN  IF it.kind = "none" THEN [status |-> "ok", contents |-> new_contents]
        ELSE IF it.kind = "err" THEN [status |-> "panic", contents |-> new_contents]
        ELSE LET line == from_utf8(it.buf)
             IN  IF ~line.ok THEN [status |-> "utf8", contents |-> new_contents]
                 ELSE set_env_lines(data, it.pos, call + 1,
                                    new_contents \o rewrite_line(line.str, new_env),
                                    new_env, fault)

\* fs::write(".envrc", contents): File::create, then write_all.  It can fail
\* before the file is touched, after it was truncated, or part-way through.
fs_write(file, contents, fault) ==
    IF fault = "write_create" THEN [ok |-> FALSE, file |-> file]
    ELSE IF fault = "write_trunc" THEN [ok |-> FALSE, file |-> <<>>]
    ELSE IF fault = "write_part"
         THEN [ok |-> FALSE, file |-> SubSeq(contents, 1, Len(contents) \div 2)]
    ELSE [ok |-> TRUE, file |-> contents]

\* p is root or lies below it
IsUnder(p, root) == Len(p) >= Len(root) /\ SubSeq(p, 1, Len(root)) = root

\* Path::exists
path_exists(dir, p) == p \in dir

\* a mutant of remove_dir_all: only the directory's own entry goes
remove_dir_only(dir, root) == dir \ {root}

\* fs::remove_dir_all: the directory and everything below it
remove_dir_all(dir, root) == {p \in dir : ~IsUnder(p, root)}

\* set_env.  A remove_dir_all that fails is taken to fail before it removed
\* anything.
set_env(opts, file, dir, fault) ==
    IF fault = "open"
    THEN Outcome(1, "open", <<>>, <<>>, <<>>, file, dir)
    ELSE
    LET read == set_env_lines(file, 1, 1, <<>>, opts.new_env, fault)
    IN  IF read.status = "panic"
        THEN Outcome(101, "read", <<"open">>, <<>>, <<>>, file, dir)
        ELSE IF read.status = "utf8"
        THEN Outcome(1, "utf8", <<"open">>, <<>>, <<>>, file, dir)
        ELSE
        LET w == fs_write(file, read.contents, fault)
        IN  IF ~w.ok
            THEN Outcome(1, "write", <<"open">>, <<>>, <<>>, w.file, dir)
            ELSE
            LET exists == path_exists(dir, TERRAFORM_DIR)
                removed == IF exists THEN remove_dir_all(dir, TERRAFORM_DIR) ELSE dir
                done == <<"open", "write">> \o (IF exists THEN <<"remove">> ELSE <<>>)
            IN  IF exists /\ fault = "remove"
                THEN Outcome(1, "remove", <<"open", "write">>, <<>>, <<>>, w.file, dir)
                ELSE IF fault = "print"
                THEN Outcome(101, "print", done, <<>>, <<>>, w.file, removed)
                ELSE Outcome(0, "none", done \o <<"print">>, <<>>, <<REMINDER>>,
                             w.file, removed)

----------------------------------------------------------------------------
(* plan, apply, destroy, init *)

\* a mutant of run_terraform: a child that exits non-zero is an error
run_terraform_checks_status(args, fault, child_code, file, dir) ==
    LET cmdline == <<[program |-> "terraform", args |-> args]>>
    IN  IF fault = "spawn"
        THEN Outcome(1, "spawn", <<>>, cmdline, <<>>, file, dir)
        ELSE IF fault = "wait"
        THEN Outcome(1, "wait", <<"spawn">>, cmdline, <<>>, file, dir)
        ELSE IF child_code # 0
        THEN Outcome(1, "child", <<"spawn", "wait">>, cmdline, <<>>, file, dir)
        ELSE Outcome(0, "none", <<"spawn", "wait">>, cmdline, <<>>, file, dir)

\* run_terraform: spawn terraform with args and wait for it; the child's
\* exit status (child_code) is dropped.
run_terraform(args, fault, child_code, file, dir) ==
    LET cmdline == <<[program |-> "terraform", args |-> args]>>
    IN  IF fault = "spawn"
        THEN Outcome(1, "spawn", <<>>, cmdline, <<>>, file, dir)
        ELSE IF fault = "wait"
        THEN Outcome(1, "wait", <<"spawn">>, cmdline, <<>>, file, dir)
        ELSE Outcome(0, "none", <<"spawn", "wait">>, cmdline, <<>>, file, dir)

\* Path::new("envs").join(env).join(name).to_string_lossy()
var_file(env_name, name) == to_string_lossy(PathJoin(PathJoin(ENVS, env_name), name))

\* an invocation that fails on the environment, before anything is done
EnvFailure(exit, file, dir) == Outcome(exit, "env", <<>>, <<>>, <<>>, file, dir)

\* a mutant of apply: --auto-approve is passed whatever the flag
apply_always_approves(opts, env, fault, child_code, file, dir) ==
    IF ~check_env(env) THEN EnvFailure(1, file, dir)
    ELSE LET e == env_var(env.ENV)
         IN  IF ~e.ok THEN EnvFailure(1, file, dir)
             ELSE run_terraform(<<"destroy", "-var-file", var_file(e.val, MAIN_TFVARS),
                                  "--auto-approve">>,
                                fault, child_code, file, dir)

apply(opts, env, fault, child_code, file, dir) ==
    IF ~check_env(env) THEN EnvFailure(1, file, dir)
    ELSE LET e == env_var(env.ENV)
         IN  IF ~e.ok THEN EnvFailure(1, file, dir)
             ELSE LET file_str == var_file(e.val, MAIN_TFVARS)
                      args == <<"destroy", "-var-file", file_str>>
                              \o (IF opts.auto_approve THEN <<"--auto-approve">> ELSE <<>>)
                  IN  run_terraform(args, fault, child_code, file, dir)

\* plan: env::var("ENV").expect(..) panics where the others return the error
plan(env, fault, child_code, file, dir) ==
    IF ~check_env(env) THEN EnvFailure(1, file, dir)
    ELSE LET e == env_var(env.ENV)
         IN  IF ~e.ok THEN EnvFailure(101, file, dir)
             ELSE run_terraform(<<"plan", "-var-file", var_file(e.val, MAIN_TFVARS)>>,
                                fault, child_code, file, dir)

destroy(env, fault, child_code, file, dir) ==
    IF ~check_env(env) THEN EnvFailure(1, file, dir)
    ELSE LET e == env_var(env.ENV)
         IN  IF ~e.ok THEN EnvFailure(1, file, dir)
             ELSE run_terraform(<<"destroy", "-var-file", var_file(e.val, MAIN_TFVARS)>>,
                                fault, child_code, file, dir)

init(env, fault, child_code, file, dir) ==
    IF ~check_env(env) THEN EnvFailure(1, file, dir)
    ELSE LET e == env_var(env.ENV)
         IN  IF ~e.ok THEN EnvFailure(1, file, dir)
             ELSE run_terraform(<<"init", "-backend-config", var_file(e.val, STATE_TFVARS)>>,
                                fault, child_code, file, dir)

----------------------------------------------------------------------------
(* main *)

\* main: dispatch on the parsed command i.cmd; the handler's error, if any,
\* is the process's.
main(i, file, dir) ==
    LET env == [ENV |-> i.ENV, AWS_PROFILE |-> i.AWS_PROFILE]
    IN  CASE i.cmd = "set-env" -> set_env([new_env |-> i.new_env], file, dir, i.fault)
          [] i.cmd = "apply"   -> apply([auto_approve |-> i.auto_approve], env,
                                        i.fault, i.child_code, file, dir)
          [] i.cmd = "plan"    -> plan(env, i.fault, i.child_code, file, dir)
          [] i.cmd = "destroy" -> destroy(env, i.fault, i.child_code, file, dir)
          [] i.cmd = "init"    -> init(env, i.fault, i.child_code, file, dir)

----------------------------------------------------------------------------
(* The inputs the model draws from *)

\* a non-ASCII character, U+00E9, in UTF-8
E_ACUTE == <<195, 169>>
\* a byte that occurs in no UTF-8 text
BAD_BYTE == <<255>>

\* what an initial .envrc is put together from
Fragments == {MARKER, NL, E_ACUTE, BAD_BYTE}

RECURSIVE DocsUpTo(_)
DocsUpTo(n) ==
    IF n = 0 THEN {<<>>}
    ELSE LET D == DocsUpTo(n - 1) IN D \cup {d \o f : d \in D, f \in Fragments}

\* "export PATH=/x\nexport ENV=dev\nexport FOO=1\n"
SampleEnvrc ==
    <<101, 120, 112, 111, 114, 116, 32, 80, 65, 84, 72, 61, 47, 120, 10>>
    \o MARKER \o <<61, 100, 101, 118, 10>>
    \o <<101, 120, 112, 111, 114, 116, 32, 70, 79, 79, 61, 49, 10>>

\* the working directory besides .envrc, without and with a Terraform cache
OtherFiles == {<<"envs">>, <<"envs", "dev">>, <<"envs", "dev", "main.tfvars">>}
TerraformCache ==
    {TERRAFORM_DIR, TERRAFORM_DIR \o <<"providers">>,
     TERRAFORM_DIR \o <<"providers", "aws">>}
Trees == {OtherFiles, OtherFiles \cup TerraformCache}

\* new_env: "", "p", and a value with a line break in it, "\n"
NewEnvs == {<<>>, <<112>>, NL}

\* ENV: absent, not Unicode, "", "d", "/d", "d/"
EnvValues ==
    {Absent, SetTo(BAD_BYTE), SetTo(<<>>), SetTo(<<100>>),
     SetTo(SEP \o <<100>>), SetTo(<<100>> \o SEP)}

\* AWS_PROFILE: absent, not Unicode, "p"
ProfileValues == {Absent, SetTo(BAD_BYTE), SetTo(<<112>>)}

\* the step of set-env that the system fails, if it gets there
SetEnvFaults ==
    {"none", "open", "read1", "read2", "write_create", "write_trunc", "write_part",
     "remove", "print"}

\* how the terraform child ends: spawn fails, wait fails, or an exit status
ChildFates ==
    {[fault |-> "spawn", child_code |-> 0], [fault |-> "wait", child_code |-> 0],
     [fault |-> "none", child_code |-> 0], [fault |-> "none", child_code |-> 1]}

----------------------------------------------------------------------------
(* Invocations *)

NoInvocation ==
    [cmd |-> "none", new_env |-> <<>>, auto_approve |-> FALSE, ENV |-> Absent,
     AWS_PROFILE |-> Absent, fault |-> "none", child_code |-> 0]

NoResult ==
    [exit |-> 0, failed |-> "none", effects |-> <<>>, argv |-> <<>>, stdout |-> <<>>]

NoHistory == [set_env_ok |-> FALSE, new_env |-> <<>>]

\* one run of the tool on the working directory as it is
Invoke(i) ==
    \E r \in {main(i, envrc, tree)} :
        /\ envrc' = r.envrc
        /\ tree' = r.tree
        /\ runs' = runs + 1
        /\ inv' = i
        /\ res' = [exit |-> r.exit, failed |-> r.failed, effects |-> r.effects,
                   argv |-> r.argv, stdout |-> r.stdout]
        /\ before' = [envrc |-> envrc, tree |-> tree]
        /\ hist' = [set_env_ok |-> inv.cmd = "set-env" /\ res.exit = 0,
                    new_env |-> IF inv.cmd = "set-env" /\ res.exit = 0
                                THEN inv.new_env ELSE <<>>]
        /\ UNCHANGED <<li_input, li_delim, li_pos, li_chunks, li_nones>>

\* tf set-env <new_env>; set_env reads no environment variable
SetEnvRun ==
    \E x \in NewEnvs, f \in SetEnvFaults :
        Invoke([NoInvocation EXCEPT !.cmd = "set-env", !.new_env = x, !.fault = f])

\* tf set-env, the first invocation in the working directory
RunSetEnv == runs = 0 /\ SetEnvRun

\* tf set-env once more, in the working directory the last invocation left
RepeatSetEnv == runs >= 1 /\ runs < MaxRuns /\ SetEnvRun

\* a terraform command with its options, environment and child
TerraformInvocation(c, y, e, a, k) ==
    [NoInvocation EXCEPT !.cmd = c, !.auto_approve = y, !.ENV = e,
                         !.AWS_PROFILE = a, !.fault = k.fault,
                         !.child_code = k.child_code]

\* tf plan
RunPlan ==
    /\ runs = 0
    /\ \E e \in EnvValues, a \in ProfileValues, k \in ChildFates :
           Invoke(TerraformInvocation("plan", FALSE, e, a, k))

\* tf apply [-y]
RunApply ==
    /\ runs = 0
    /\ \E y \in BOOLEAN, e \in EnvValues, a \in ProfileValues, k \in ChildFates :
           Invoke(TerraformInvocation("apply", y, e, a, k))

\* tf destroy
RunDestroy ==
    /\ runs = 0
    /\ \E e \in EnvValues, a \in ProfileValues, k \in ChildFates :
           Invoke(TerraformInvocation("destroy", FALSE, e, a, k))

\* tf init
RunInit ==
    /\ runs = 0
    /\ \E e \in EnvValues, a \in ProfileValues, k \in ChildFates :
           Invoke(TerraformInvocation("init", FALSE, e, a, k))

----------------------------------------------------------------------------
(* LineIterator on its own *)

\* the bytes its inputs are made of: '\n', ',' and 'a'
LineBytes == {10, 44, 97}
\* the delimiters tried
Delimiters == {10, 44}

RECURSIVE BytesUpTo(_)
BytesUpTo(n) ==
    IF n = 0 THEN {<<>>}
    ELSE LET B == BytesUpTo(n - 1) IN B \cup {b \o <<c>> : b \in B, c \in LineBytes}

\* one call of next() on the iterator; it may be called again after None
LineNext ==
    LET it == LineIterator_next(li_delim, li_input, li_pos, FALSE)
    IN  /\ li_nones < 2
        /\ li_pos' = it.pos
        /\ li_chunks' = IF it.kind = "ok" THEN Append(li_chunks, it.buf) ELSE li_chunks
        /\ li_nones' = IF it.kind = "none" THEN li_nones + 1 ELSE li_nones
        /\ UNCHANGED <<li_input, li_delim, envrc, tree, runs, inv, res, before, hist>>

----------------------------------------------------------------------------
(* Specifications *)

NoRunYet ==
    /\ runs = 0
    /\ inv = NoInvocation
    /\ res = NoResult
    /\ before = [envrc |-> envrc, tree |-> tree]
    /\ hist = NoHistory

NoIterator ==
    /\ li_input = <<>>
    /\ li_delim = NL[1]
    /\ li_pos = 1
    /\ li_chunks = <<>>
    /\ li_nones = 0

\* the working directories an invocation may find: every .envrc of up to
\* MaxFrags fragments, and the sample
Init ==
    /\ envrc \in DocsUpTo(MaxFrags) \cup {SampleEnvrc}
    /\ tree \in Trees
    /\ NoRunYet
    /\ NoIterator

Next == RunSetEnv \/ RunPlan \/ RunApply \/ RunDestroy \/ RunInit

\* one invocation of any command
Spec == Init /\ [][Next]_vars

NextSetEnv == RunSetEnv \/ RepeatSetEnv

\* up to MaxRuns invocations of set-env, one after the other
SpecSetEnv == Init /\ [][NextSetEnv]_vars

\* LineIterator alone, on every input of up to MaxLen bytes
InitLines ==
    /\ li_input \in BytesUpTo(MaxLen)
    /\ li_delim \in Delimiters
    /\ li_pos = 1
    /\ li_chunks = <<>>
    /\ li_nones = 0
    /\ envrc = <<>>
    /\ tree = OtherFiles
    /\ NoRunYet

SpecLines == InitLines /\ [][LineNext]_vars

----------------------------------------------------------------------------
(* Properties.  Lines are located here by their positions in the document,  *)
(* not with the program's reader.                                           *)

Range(q) == {q[i] : i \in 1..Len(q)}

\* the positions at which the '\n'-delimited lines of doc start
LineStarts(doc) == {i \in 1..Len(doc) : i = 1 \/ doc[i - 1] = 10}

\* the position at which the line that starts at i ends: its '\n', or the
\* document's last byte
LineEnd(doc, i) ==
    CHOOSE j \in i..Len(doc) :
        /\ doc[j] = 10 \/ j = Len(doc)
        /\ \A k \in i..(j - 1) : doc[k] # 10

LineAt(doc, i) == SubSeq(doc, i, LineEnd(doc, i))

\* the starts of the lines that contain "export ENV"
MarkerLines(doc) == {i \in LineStarts(doc) : Contains(LineAt(doc, i), MARKER)}

\* some line is not valid UTF-8
SomeLineInvalid(doc) == \E i \in LineStarts(doc) : ~Utf8Valid(LineAt(doc, i))

\* the last invocation was set-env and nothing kept it from reading .envrc
\* and writing it back
SetEnvWroteBack ==
    /\ inv.cmd = "set-env"
    /\ ~SomeLineInvalid(before.envrc)
    /\ inv.fault \notin {"open", "read1", "read2", "write_create", "write_trunc",
                         "write_part"}

\* C1: when .envrc is valid UTF-8 and exactly one of its lines contains
\* "export ENV", set-env X writes back the same document with that one line
\* replaced by "export ENV=X\n": the bytes before the line and the bytes after
\* it are as they were.
C1_OneLineReplaced ==
    (SetEnvWroteBack /\ Cardinality(MarkerLines(before.envrc)) = 1) =>
        LET doc == before.envrc
            i == CHOOSE k \in MarkerLines(doc) : TRUE
        IN  envrc = SubSeq(doc, 1, i - 1)
                    \o MARKER \o <<61>> \o inv.new_env \o <<10>>
                    \o SubSeq(doc, LineEnd(doc, i) + 1, Len(doc))

\* set-env p has rewritten the middle line of the three-line sample
C1_Witness ==
    /\ SetEnvWroteBack
    /\ before.envrc = SampleEnvrc
    /\ inv.new_env = <<112>>
    /\ envrc # before.envrc

\* C7: when .envrc is valid UTF-8 and none of its lines contains
\* "export ENV", set-env leaves the document byte for byte as it was, and the
\* run succeeds when no step of it is failed by the system.
C7_NoMarkerUnchanged ==
    (SetEnvWroteBack /\ MarkerLines(before.envrc) = {}) =>
        /\ envrc = before.envrc
        /\ inv.fault = "none" => res.exit = 0

\* set-env has succeeded on a two-line document without the marker
C7_Witness ==
    /\ SetEnvWroteBack
    /\ before.envrc = E_ACUTE \o NL \o E_ACUTE
    /\ res.exit = 0
    /\ envrc = before.envrc

\* the last two invocations were successful runs of set-env with the same
\* new_env
SetEnvTwice ==
    /\ inv.cmd = "set-env"
    /\ res.exit = 0
    /\ hist.set_env_ok
    /\ hist.new_env = inv.new_env

\* C2 as claimed: for every new_env, a second set-env with the same new_env
\* leaves the document the first one wrote.
C2_Idempotent == SetEnvTwice => envrc = before.envrc

\* C2, amended: for every new_env without a line break, a second set-env
\* with the same new_env leaves the document the first one wrote.
C2_IdempotentNoLineBreak ==
    (SetEnvTwice /\ 10 \notin Range(inv.new_env)) => envrc = before.envrc

\* set-env p has run twice on a document with a matching line
C2_Witness ==
    /\ SetEnvTwice
    /\ inv.new_env = <<112>>
    /\ MarkerLines(before.envrc) # {}
    /\ envrc = before.envrc

\* the entries of a directory tree that are .terraform or lie below it
CacheEntries(dir) == {q \in dir : q[1] = ".terraform"}

\* C8: after a successful set-env there is no .terraform, whatever was below
\* it; and when there was none before, set-env succeeds (unless the system
\* fails one of its steps) and the directory tree is as it was.
C8_CacheRemoved ==
    inv.cmd = "set-env" =>
        /\ res.exit = 0 => CacheEntries(tree) = {}
        /\ (SetEnvWroteBack /\ inv.fault = "none" /\ CacheEntries(before.tree) = {}) =>
               res.exit = 0 /\ tree = before.tree

\* set-env has succeeded where .terraform had entries below it
C8_Witness ==
    /\ inv.cmd = "set-env"
    /\ res.exit = 0
    /\ <<".terraform", "providers", "aws">> \in before.tree
    /\ CacheEntries(tree) = {}

IsPrefix(a, b) == Len(a) <= Len(b) /\ SubSeq(b, 1, Len(a)) = a

\* C9: set-env's effects come in the order open/read .envrc, write .envrc,
\* remove .terraform, print the reminder; and when .envrc cannot be opened or
\* one of its lines is not valid UTF-8, set-env fails with .envrc and the
\* directory tree untouched and nothing printed.
C9_OrderAndAbort ==
    inv.cmd = "set-env" =>
        /\ \/ IsPrefix(res.effects, <<"open", "write", "remove", "print">>)
           \/ IsPrefix(res.effects, <<"open", "write", "print">>)
        /\ "remove" \in Range(res.effects) <=> tree # before.tree
        /\ "print" \in Range(res.effects) <=> res.stdout # <<>>
        /\ (inv.fault = "open" \/ SomeLineInvalid(before.envrc)) =>
               /\ res.exit # 0
               /\ envrc = before.envrc
               /\ tree = before.tree
               /\ res.stdout = <<>>

\* set-env has failed on a document whose first line matches the marker and
\* whose second line is not UTF-8, with a .terraform to remove
C9_Witness ==
    /\ inv.cmd = "set-env"
    /\ inv.fault = "none"
    /\ before.envrc = MARKER \o NL \o BAD_BYTE
    /\ TERRAFORM_DIR \in before.tree
    /\ res.exit # 0
    /\ envrc = before.envrc

----------------------------------------------------------------------------
(* Properties of plan, apply, destroy, init *)

TerraformCommands == {"plan", "apply", "destroy", "init"}

\* C3: plan, apply, destroy and init fail when ENV or AWS_PROFILE is absent,
\* and have then done nothing: no terraform command line was handed to
\* spawn, .envrc and the directory tree are as they were.
C3_NoEnvNoEffect ==
    (inv.cmd \in TerraformCommands /\ (~inv.ENV.set \/ ~inv.AWS_PROFILE.set)) =>
        /\ res.exit # 0
        /\ res.argv = <<>>
        /\ res.effects = <<>>
        /\ envrc = before.envrc
        /\ tree = before.tree

\* apply has failed with ENV set and AWS_PROFILE absent
C3_Witness ==
    /\ inv.cmd = "apply"
    /\ inv.ENV = SetTo(<<100>>)
    /\ ~inv.AWS_PROFILE.set
    /\ inv.fault = "none"
    /\ res.exit # 0

\* ENV and AWS_PROFILE are both set to Unicode text
EnvReadable ==
    /\ inv.ENV.set /\ Utf8Valid(inv.ENV.val)
    /\ inv.AWS_PROFILE.set /\ Utf8Valid(inv.AWS_PROFILE.val)

\* "envs/E/<name>", the bytes put one after the other
SlashPath(E, name) == ENVS \o <<47>> \o E \o <<47>> \o name

\* p with every run of '/' made a single '/'
RECURSIVE Collapse(_)
Collapse(p) ==
    IF Len(p) < 2 THEN p
    ELSE IF p[1] = 47 /\ p[2] = 47 THEN Collapse(Tail(p))
    ELSE <<p[1]>> \o Collapse(Tail(p))

\* "envs/E/<name>" read in the claim's favour: a doubled '/', as an empty E
\* or one that ends with '/' makes, counts as one
ClaimedPath(E, name) == Collapse(SlashPath(E, name))

\* the path the program hands over: E itself in place of "envs/E" when E
\* begins with '/', and no second '/' before the name when "envs/E" ends
\* with one
JoinedPath(E, name) ==
    LET d == IF E # <<>> /\ Head(E) = 47 THEN E ELSE ENVS \o <<47>> \o E
    IN  (IF d[Len(d)] = 47 THEN d ELSE d \o <<47>>) \o name

\* the one command line handed to spawn: terraform with these arguments
Spawned(args) == res.argv = <<[program |-> "terraform", args |-> args]>>

\* the argument lists of plan, destroy and init with the path function P
PlanDestroyInitArgs(P(_, _)) ==
    LET E == inv.ENV.val
    IN  /\ (inv.cmd = "plan" /\ EnvReadable) =>
               Spawned(<<"plan", "-var-file", P(E, MAIN_TFVARS)>>)
        /\ (inv.cmd = "destroy" /\ EnvReadable) =>
               Spawned(<<"destroy", "-var-file", P(E, MAIN_TFVARS)>>)
        /\ (inv.cmd = "init" /\ EnvReadable) =>
               Spawned(<<"init", "-backend-config", P(E, STATE_TFVARS)>>)

\* C4 as claimed: for every value E of ENV, the empty one and those that
\* begin with '/' included, plan, destroy and init pass the path
\* envs/E/main.tfvars (init: envs/E/terraform_state.tfvars); a doubled '/'
\* is let pass as a single one.
C4_ExactArgs == PlanDestroyInitArgs(ClaimedPath)

\* C4, amended: plan, destroy and init pass exactly [plan, -var-file, P],
\* [destroy, -var-file, P] and [init, -backend-config, P'], where the path is
\* envs/E/<name> for an E that is not empty and neither begins nor ends with
\* '/'; an E that begins with '/' stands in place of envs/E, and no second
\* '/' is put after an empty E or one that ends with '/'.
C4_JoinedArgs ==
    /\ PlanDestroyInitArgs(JoinedPath)
    /\ LET E == inv.ENV.val
       IN  (E # <<>> /\ Head(E) # 47 /\ E[Len(E)] # 47) =>
               PlanDestroyInitArgs(SlashPath)

\* init has run with ENV=d
C4_Witness ==
    /\ inv.cmd = "init"
    /\ EnvReadable
    /\ inv.ENV.val = <<100>>
    /\ Spawned(<<"init", "-backend-config", SlashPath(<<100>>, STATE_TFVARS)>>)

\* the argument list of apply with the path function P
ApplyArgs(P(_, _)) ==
    (inv.cmd = "apply" /\ EnvReadable) =>
        /\ inv.auto_approve =>
               Spawned(<<"destroy", "-var-file", P(inv.ENV.val, MAIN_TFVARS),
                         "--auto-approve">>)
        /\ ~inv.auto_approve =>
               Spawned(<<"destroy", "-var-file", P(inv.ENV.val, MAIN_TFVARS)>>)

\* C5 as claimed: apply passes [destroy, -var-file, envs/E/main.tfvars], and
\* --auto-approve after them exactly when -y was given; a doubled '/' is let
\* pass as a single one.
C5_ApplyArgs == ApplyArgs(ClaimedPath)

\* C5, amended: apply passes [destroy, -var-file, P], and --auto-approve
\* after them exactly when -y was given, where P is envs/E/main.tfvars for an
\* E that is not empty and neither begins nor ends with '/', and the joined
\* path of C4 otherwise.
C5_ApplyJoinedArgs ==
    /\ ApplyArgs(JoinedPath)
    /\ LET E == inv.ENV.val
       IN  (E # <<>> /\ Head(E) # 47 /\ E[Len(E)] # 47) => ApplyArgs(SlashPath)

\* apply -y has run with ENV=d
C5_Witness ==
    /\ inv.cmd = "apply"
    /\ inv.auto_approve
    /\ EnvReadable
    /\ inv.ENV.val = <<100>>
    /\ Len(res.argv) = 1
    /\ res.argv[1].args[4] = "--auto-approve"

----------------------------------------------------------------------------
(* The exit status *)

\* a required environment variable is missing
VariableMissing ==
    inv.cmd \in TerraformCommands /\ (~inv.ENV.set \/ ~inv.AWS_PROFILE.set)

\* a required environment variable is set, but not to Unicode text
VariableNotUnicode ==
    /\ inv.cmd \in TerraformCommands
    /\ \/ inv.ENV.set /\ ~Utf8Valid(inv.ENV.val)
       \/ inv.AWS_PROFILE.set /\ ~Utf8Valid(inv.AWS_PROFILE.val)

\* .envrc cannot be opened or read (the second read is only made of a
\* document that is not empty), is not valid UTF-8, or cannot be written
EnvrcFailure ==
    /\ inv.cmd = "set-env"
    /\ \/ inv.fault \in {"open", "read1"}
       \/ inv.fault = "read2" /\ before.envrc # <<>>
       \/ SomeLineInvalid(before.envrc)
       \/ inv.fault \in {"write_create", "write_trunc", "write_part"}

\* terraform cannot be spawned or waited on
ChildFailure ==
    inv.cmd \in TerraformCommands /\ inv.fault \in {"spawn", "wait"}

\* the existing .terraform cannot be removed, or the reminder not printed
CleanupFailure ==
    /\ inv.cmd = "set-env"
    /\ \/ inv.fault = "remove" /\ TERRAFORM_DIR \in before.tree
       \/ inv.fault = "print"

\* C6 as claimed: the exit status is non-zero exactly when a required
\* variable is missing, .envrc cannot be read or written or is not UTF-8, or
\* terraform cannot be spawned or waited on; it is zero in every other run.
\* Read in the claim's favour: a variable that is not Unicode counts as
\* missing, and runs whose reminder cannot be printed are left aside.
C6_ExitStatus ==
    (inv.cmd # "none" /\ inv.fault # "print") =>
        (res.exit # 0 <=> (VariableMissing \/ VariableNotUnicode \/ EnvrcFailure
                           \/ ChildFailure))

\* C6, amended: the exit status is non-zero exactly when a required variable
\* is missing or not Unicode, .envrc cannot be read or written or is not
\* UTF-8, the existing .terraform cannot be removed, the reminder cannot be
\* printed, or terraform cannot be spawned or waited on; it is zero in every
\* other run, whatever exit code the terraform child returned.
C6_ExitStatusAmended ==
    inv.cmd # "none" =>
        (res.exit # 0 <=> (VariableMissing \/ VariableNotUnicode \/ EnvrcFailure
                           \/ CleanupFailure \/ ChildFailure))

\* destroy has exited zero although its terraform child exited with 1
C6_Witness ==
    /\ inv.cmd = "destroy"
    /\ EnvReadable
    /\ inv.fault = "none"
    /\ inv.child_code = 1
    /\ res.effects = <<"spawn", "wait">>
    /\ res.exit = 0

----------------------------------------------------------------------------
(* Properties of LineIterator *)

RECURSIVE Concat(_)
Concat(chunks) ==
    IF chunks = <<>> THEN <<>> ELSE Head(chunks) \o Concat(Tail(chunks))

\* C10: the chunks yielded so far are not empty and make up, in order, the
\* input read so far; the delimiter occurs in a chunk only as its last byte;
\* every chunk ends with the delimiter, except possibly one that ends the
\* input; None is returned only once the whole input was yielded, and from
\* then on; an empty input yields no chunk.
C10_ChunksPartitionInput ==
    LET n == Len(li_chunks)
    IN  /\ \A k \in 1..n : li_chunks[k] # <<>>
        /\ Concat(li_chunks) = SubSeq(li_input, 1, li_pos - 1)
        /\ \A k \in 1..n : \A m \in 1..(Len(li_chunks[k]) - 1) :
               li_chunks[k][m] # li_delim
        /\ \A k \in 1..n :
               \/ li_chunks[k][Len(li_chunks[k])] = li_delim
               \/ k = n /\ li_pos = Len(li_input) + 1
        /\ li_nones > 0 => Concat(li_chunks) = li_input
        /\ li_input = <<>> => li_chunks = <<>>

\* next() has returned None, twice, after two chunks, the first ending with
\* the delimiter and the last one not
C10_Witness ==
    /\ li_nones = 2
    /\ li_input = <<97, 44, 10, 97>>
    /\ li_delim = 44
    /\ li_chunks = <<<<97, 44>>, <<10, 97>>>>

====
